---- MODULE Spec2Model ----
(***************************************************************************)
(* The two spreadsheet-to-Turtle pipelines of BH25-metrics:                *)
(*   src/src/sheet_to_ttl.py       the ontology builder (writes RIMO.ttl)  *)
(*   src/src/sheet_to_base_ttl.py  the instance builder (writes KPIs.ttl)  *)
(* A Python str is a sequence of one-character strings, so that strip,     *)
(* lower, replace, split and capitalize are computed as Python computes    *)
(* them.  A spreadsheet cell is what pandas.read_csv yields for it: NaN    *)
(* for an empty cell, a str otherwise.  An RDF graph is a set of triples   *)
(* of terms; a term is a URI reference or a literal.                       *)
(***************************************************************************)
EXTENDS Naturals, Sequences, FiniteSets, TLC

----------------------------------------------------------------------------
(* Characters and the str methods the scripts use.                         *)

LowerLetters == <<"a","b","c","d","e","f","g","h","i","j","k","l","m","n","o","p","q","r","s","t","u","v","w","x","y","z">>
UpperLetters == <<"A","B","C","D","E","F","G","H","I","J","K","L","M","N","O","P","Q","R","S","T","U","V","W","X","Y","Z">>
Digits == <<"0","1","2","3","4","5","6","7","8","9">>
\* str.strip() with no argument removes white space
Whitespace == {" ", "\n", "\t", "\r"}

InSeq(c, s) == \E i \in 1..Len(s) : s[i] = c
IndexOf(c, s) == CHOOSE i \in 1..Len(s) : s[i] = c
IsUpper(c) == InSeq(c, UpperLetters)
IsLower(c) == InSeq(c, LowerLetters)
IsDigit(c) == InSeq(c, Digits)
\* the character class [a-zA-Z0-9] of slugcamel's regular expression
IsAlnum(c) == IsUpper(c) \/ IsLower(c) \/ IsDigit(c)
LowerChar(c) == IF IsUpper(c) THEN LowerLetters[IndexOf(c, UpperLetters)] ELSE c
UpperChar(c) == IF IsLower(c) THEN UpperLetters[IndexOf(c, LowerLetters)] ELSE c

\* str.lower()
Lower(s) == [i \in 1..Len(s) |-> LowerChar(s[i])]
\* str.capitalize(): first character upper-cased, the rest lower-cased
Capitalize(s) == [i \in 1..Len(s) |-> IF i = 1 THEN UpperChar(s[i]) ELSE LowerChar(s[i])]

RECURSIVE LStrip(_)
LStrip(s) == IF s # <<>> /\ Head(s) \in Whitespace THEN LStrip(Tail(s)) ELSE s
RECURSIVE RStrip(_)
RStrip(s) ==
  IF s # <<>> /\ s[Len(s)] \in Whitespace THEN RStrip(SubSeq(s, 1, Len(s) - 1)) ELSE s
\* str.strip()
Strip(s) == RStrip(LStrip(s))

\* str.replace(a, b) for one-character a and b
ReplaceChar(s, a, b) == [i \in 1..Len(s) |-> IF s[i] = a THEN b ELSE s[i]]

\* str.startswith(p)
StartsWith(s, p) == Len(s) >= Len(p) /\ SubSeq(s, 1, Len(p)) = p

\* str.replace(old, new) for any non-empty old: leftmost, non-overlapping
RECURSIVE Replace(_, _, _)
Replace(s, old, new) ==
  IF s = <<>> THEN <<>>
  ELSE IF StartsWith(s, old) THEN new \o Replace(SubSeq(s, Len(old) + 1, Len(s)), old, new)
  ELSE <<Head(s)>> \o Replace(Tail(s), old, new)

\* the Python expression  p in s  on two strs
Contains(s, p) == \E i \in 1..(Len(s) + 1) : StartsWith(SubSeq(s, i, Len(s)), p)

\* str.split(sep) for a one-character sep: the pieces between the separators
RECURSIVE SplitAcc(_, _, _)
SplitAcc(s, sep, cur) ==
  IF s = <<>> THEN <<cur>>
  ELSE IF Head(s) = sep THEN <<cur>> \o SplitAcc(Tail(s), sep, <<>>)
  ELSE SplitAcc(Tail(s), sep, Append(cur, Head(s)))
Split(s, sep) == SplitAcc(s, sep, <<>>)

\* re.split(r"[^a-zA-Z0-9]+", s): the pieces between runs of other characters
RECURSIVE ReSplitAcc(_, _, _)
ReSplitAcc(s, cur, inrun) ==
  IF s = <<>> THEN <<cur>>
  ELSE IF IsAlnum(Head(s)) THEN ReSplitAcc(Tail(s), Append(cur, Head(s)), FALSE)
  ELSE IF inrun THEN ReSplitAcc(Tail(s), cur, TRUE)
  ELSE <<cur>> \o ReSplitAcc(Tail(s), <<>>, TRUE)
ReSplitNonAlnum(s) == ReSplitAcc(s, <<>>, FALSE)

\* "".join(parts)
RECURSIVE Join(_)
Join(parts) == IF parts = <<>> THEN <<>> ELSE Head(parts) \o Join(Tail(parts))

----------------------------------------------------------------------------
(* Python values, RDF terms and graphs.                                    *)

\* what a cell, or an argument of a helper, can be: None, NaN (pandas' missing
\* value, a float), a str, or a URIRef (a str subclass; s is its text)
None == [kind |-> "none", s |-> <<>>]
NaN == [kind |-> "nan", s |-> <<>>]
StrV(s) == [kind |-> "str", s |-> s]
\* str(v)
Str(v) ==
  CASE v.kind = "none" -> <<"N","o","n","e">>
    [] v.kind = "nan" -> <<"n","a","n">>
    [] OTHER -> v.s
\* pd.isna(v) / pd.notna(v)
IsNa(v) == v.kind \in {"none", "nan"}
NotNa(v) == ~IsNa(v)
\* bool(v): None and "" are false; NaN is a non-zero float, hence true
Truthy(v) == IF v.kind = "none" THEN FALSE ELSE IF v.kind = "nan" THEN TRUE ELSE v.s # <<>>
\* a cell access that treats a missing cell as an empty text instead of raising
HasStrMethodsLenient(v) == TRUE
\* v.strip(), v.replace(...), v.split(...): only a str has these methods; on NaN
\* or None the attribute access raises AttributeError
HasStrMethods(v) == v.kind \in {"str", "uri"}

\* the namespaces: rdflib's Namespace(text)[name] is URIRef(text + name)
NsText(ns) ==
  CASE ns = "rimo" -> <<"h","t","t","p","s",":","/","/","w","3","i","d",".","o","r","g","/","R","I","M","O","/">>
    [] ns = "pato" -> <<"h","t","t","p",":","/","/","p","u","r","l",".","o","b","o","l","i","b","r","a","r","y",".","o","r","g","/","o","b","o","/","P","A","T","O","_">>
    [] ns = "rdf" -> <<"h","t","t","p",":","/","/","w","w","w",".","w","3",".","o","r","g","/","1","9","9","9","/","0","2","/","2","2","-","r","d","f","-","s","y","n","t","a","x","-","n","s","#">>
    [] ns = "rdfs" -> <<"h","t","t","p",":","/","/","w","w","w",".","w","3",".","o","r","g","/","2","0","0","0","/","0","1","/","r","d","f","-","s","c","h","e","m","a","#">>
    [] ns = "foaf" -> <<"h","t","t","p",":","/","/","x","m","l","n","s",".","c","o","m","/","f","o","a","f","/","0",".","1","/">>
    [] ns = "owl" -> <<"h","t","t","p",":","/","/","w","w","w",".","w","3",".","o","r","g","/","2","0","0","2","/","0","7","/","o","w","l","#">>
    [] ns = "dcterms" -> <<"h","t","t","p",":","/","/","p","u","r","l",".","o","r","g","/","d","c","/","t","e","r","m","s","/">>
    [] OTHER -> <<>>
Namespaces == {"rimo", "pato", "rdf", "rdfs", "foaf", "owl", "dcterms"}

\* a URI reference, kept as namespace and local name; ns = "" holds the whole
\* text in v.  A literal has a lexical form v, a language tag and a datatype.
URI(ns, local) == [t |-> "uri", ns |-> ns, v |-> local, lang |-> "", dt |-> ""]
\* URIRef(text): the same term as Namespace[name] when the texts agree
URIRef(text) ==
  IF \E ns \in Namespaces : StartsWith(text, NsText(ns))
  THEN LET ns == CHOOSE x \in Namespaces : StartsWith(text, NsText(x))
       IN URI(ns, SubSeq(text, Len(NsText(ns)) + 1, Len(text)))
  ELSE URI("", text)
\* str(u) of a URIRef
UriText(u) == NsText(u.ns) \o u.v
\* a URIRef handed on as a Python value
UriV(u) == [kind |-> "uri", s |-> UriText(u)]
NoLang == ""
NoDt == ""
XSD_boolean == "boolean"
XSD_anyURI == "anyURI"
XSD_date == "date"
\* rdflib normalises the lexical form of a typed literal whose datatype it can
\* parse: an xsd:boolean becomes true for 1 / true (any case) and false for
\* every other text; anyURI and plain literals keep the text as given, never
\* stripped
Literal(lex, lang, dt) ==
  [t |-> "lit", ns |-> "",
   v |-> IF dt = XSD_boolean
         THEN (IF Lower(lex) \in {<<"1">>, <<"t","r","u","e">>} THEN <<"t","r","u","e">> ELSE <<"f","a","l","s","e">>)
         ELSE lex,
   lang |-> lang, dt |-> dt]
\* Literal(True, datatype=XSD.boolean) / Literal(False, ...): lexical true / false
BoolLiteral(b) == Literal(IF b THEN <<"t","r","u","e">> ELSE <<"f","a","l","s","e">>, NoLang, XSD_boolean)

BASE(name) == URI("rimo", name)
RIMO(name) == URI("rimo", name)
PATO(name) == URI("pato", name)
RDF_type == URI("rdf", <<"t","y","p","e">>)
RDF_Property == URI("rdf", <<"P","r","o","p","e","r","t","y">>)
RDFS_Class == URI("rdfs", <<"C","l","a","s","s">>)
RDFS_label == URI("rdfs", <<"l","a","b","e","l">>)
RDFS_comment == URI("rdfs", <<"c","o","m","m","e","n","t">>)
RDFS_seeAlso == URI("rdfs", <<"s","e","e","A","l","s","o">>)
FOAF_Group == URI("foaf", <<"G","r","o","u","p">>)
FOAF_Agent == URI("foaf", <<"A","g","e","n","t">>)
OWL_Ontology == URI("owl", <<"O","n","t","o","l","o","g","y">>)
OWL_imports == URI("owl", <<"i","m","p","o","r","t","s">>)
OWL_versionInfo == URI("owl", <<"v","e","r","s","i","o","n","I","n","f","o">>)
DCTERMS(name) == URI("dcterms", name)

\* g.add((s, p, o)) on a set of triples
Add(g, s, p, o) == g \cup {<<s, p, o>>}

----------------------------------------------------------------------------
(* The ontology builder, sheet_to_ttl.py: the graph it builds before the   *)
(* rows are read, and its mapping functions.                               *)

\* the keys of tool_types, in order; the descriptions are never read back by
\* either script and are kept by their opening words
tool_types ==
  << [label |-> <<"B","i","o","i","n","f","o","r","m","a","t","i","c","s"," ","p","o","r","t","a","l">>, description |-> <<"w","e","b"," ","s","i","t","e"," ","p","r","o","v","i","d","i","n","g">>],
     [label |-> <<"C","o","m","m","a","n","d","-","l","i","n","e"," ","t","o","o","l">>, description |-> <<"A"," ","t","o","o","l"," ","w","i","t","h"," ","a"," ","t","e","x","t","-","b","a","s","e","d">>],
     [label |-> <<"D","a","t","a","b","a","s","e"," ","p","o","r","t","a","l">>, description |-> <<"A"," ","W","e","b"," ","a","p","p","l","i","c","a","t","i","o","n",","," ","s","u","i","t","e">>],
     [label |-> <<"D","e","s","k","t","o","p"," ","a","p","p","l","i","c","a","t","i","o","n">>, description |-> <<"A"," ","t","o","o","l"," ","w","i","t","h"," ","a"," ","g","r","a","p","h","i","c","a","l">>],
     [label |-> <<"L","i","b","r","a","r","y">>, description |-> <<"A"," ","c","o","l","l","e","c","t","i","o","n"," ","o","f"," ","c","o","m","p","o","n","e","n","t","s">>],
     [label |-> <<"O","n","t","o","l","o","g","y">>, description |-> <<"A"," ","c","o","l","l","e","c","t","i","o","n"," ","o","f"," ","i","n","f","o","r","m","a","t","i","o","n">>],
     [label |-> <<"P","l","u","g","-","i","n">>, description |-> <<"A"," ","s","o","f","t","w","a","r","e"," ","c","o","m","p","o","n","e","n","t">>],
     [label |-> <<"S","c","r","i","p","t">>, description |-> <<"A"," ","t","o","o","l"," ","w","r","i","t","t","e","n"," ","f","o","r">>],
     [label |-> <<"S","P","A","R","Q","L"," ","e","n","d","p","o","i","n","t">>, description |-> <<"A"," ","s","e","r","v","i","c","e"," ","t","h","a","t"," ","p","r","o","v","i","d","e","s">>],
     [label |-> <<"S","u","i","t","e">>, description |-> <<"A"," ","c","o","l","l","e","c","t","i","o","n"," ","o","f"," ","t","o","o","l","s">>],
     [label |-> <<"W","e","b"," ","a","p","p","l","i","c","a","t","i","o","n">>, description |-> <<"A"," ","t","o","o","l"," ","w","i","t","h"," ","a"," ","g","r","a","p","h","i","c","a","l">>],
     [label |-> <<"W","e","b"," ","A","P","I">>, description |-> <<"A","n"," ","a","p","p","l","i","c","a","t","i","o","n"," ","p","r","o","g","r","a","m","m","i","n","g">>],
     [label |-> <<"W","e","b"," ","s","e","r","v","i","c","e">>, description |-> <<"A","n"," ","A","P","I"," ","d","e","s","c","r","i","b","e","d">>],
     [label |-> <<"W","o","r","k","b","e","n","c","h">>, description |-> <<"A","n"," ","a","p","p","l","i","c","a","t","i","o","n"," ","o","r"," ","s","u","i","t","e">>],
     [label |-> <<"W","o","r","k","f","l","o","w">>, description |-> <<"A"," ","s","e","t"," ","o","f"," ","t","o","o","l","s">>],
     [label |-> <<"H","e","l","p","d","e","s","k">>, description |-> <<"A"," ","s","e","r","v","i","c","e"," ","p","r","o","v","i","d","i","n","g"," ","a","s","s","i","s","t","a","n","c","e">>] >>

target_groups ==
  << [label |-> <<"F","u","n","d","i","n","g"," ","A","g","e","n","c","y">>, description |-> <<"A","n"," ","o","r","g","a","n","i","z","a","t","i","o","n"," ","t","h","a","t"," ","p","r","o","v","i","d","e","s">>],
     [label |-> <<"S","e","r","v","i","c","e"," ","P","r","o","v","i","d","e","r">>, description |-> <<"A","n"," ","o","r","g","a","n","i","z","a","t","i","o","n"," ","o","r"," ","i","n","d","i","v","i","d","u","a","l">>],
     [label |-> <<"E","n","d"," ","U","s","e","r">>, description |-> <<"T","h","e"," ","i","n","d","i","v","i","d","u","a","l"," ","o","r"," ","g","r","o","u","p">>],
     [label |-> <<"N","e","t","w","o","r","k">>, description |-> <<"A"," ","g","r","o","u","p"," ","o","r"," ","s","y","s","t","e","m">>],
     [label |-> <<"T","e","c","h","n","i","c","a","l">>, description |-> <<"I","n","d","i","v","i","d","u","a","l","s"," ","o","r"," ","t","e","a","m","s">>] >>

automation_tools ==
  << [label |-> <<"M","a","t","o","m","o">>, description |-> <<"A","n"," ","o","p","e","n","-","s","o","u","r","c","e"," ","w","e","b"," ","a","n","a","l","y","t","i","c","s">>],
     [label |-> <<"G","o","o","g","l","e"," ","A","n","a","l","y","t","i","c","s">>, description |-> <<"A"," ","w","e","b"," ","a","n","a","l","y","t","i","c","s"," ","s","e","r","v","i","c","e">>],
     [label |-> <<"B","i","o","c","o","n","d","u","c","t","o","r">>, description |-> <<"A","n"," ","o","p","e","n","-","s","o","u","r","c","e"," ","s","o","f","t","w","a","r","e"," ","p","r","o","j","e","c","t">>],
     [label |-> <<"G","a","l","a","x","y">>, description |-> <<"A","n"," ","o","p","e","n",","," ","w","e","b","-","b","a","s","e","d"," ","p","l","a","t","f","o","r","m">>],
     [label |-> <<"G","i","t","H","u","b">>, description |-> <<"A"," ","w","e","b","-","b","a","s","e","d"," ","p","l","a","t","f","o","r","m">>],
     [label |-> <<"C","u","s","t","o","m"," ","s","c","r","i","p","t","s">>, description |-> <<"U","s","e","r","-","d","e","f","i","n","e","d"," ","s","c","r","i","p","t","s">>],
     [label |-> <<"O","p","e","n","A","l","e","x">>, description |-> <<"A","n"," ","o","p","e","n"," ","c","a","t","a","l","o","g">>] >>

\* properties: the name of each property and, under the same name, its URI
PropertyNames ==
  << <<"i","n","d","i","c","a","t","o","r","S","e","t">>, <<"d","e","s","c","r","i","p","t","i","o","n">>, <<"s","e","r","v","i","c","e","C","a","t","e","g","o","r","y">>, <<"v","a","l","u","e","T","y","p","e">>, <<"e","x","a","m","p","l","e">>,
     <<"t","a","r","g","e","t","G","r","o","u","p">>, <<"m","a","n","d","a","t","o","r","y">>, <<"m","e","a","s","u","r","e","m","e","n","t">>, <<"s","o","u","r","c","e">>, <<"a","u","t","o","m","a","t","i","o","n","T","o","o","l">>, <<"l","i","n","k">> >>
properties(name) == BASE(name)

\* the three triples each vocabulary entry gets: BASE[label.replace(" ", "_")]
\* typed cls, labelled and commented in English
VocabularyTriples(entries, cls) ==
  UNION { LET uri == BASE(ReplaceChar(entries[i].label, " ", "_"))
          IN { <<uri, RDF_type, cls>>,
               <<uri, RDFS_label, Literal(entries[i].label, "en", NoDt)>>,
               <<uri, RDFS_comment, Literal(entries[i].description, "en", NoDt)>> }
          : i \in 1..Len(entries) }

ontology_uri == URIRef(<<"h","t","t","p","s",":","/","/","w","3","i","d",".","o","r","g","/","R","I","M","O">>)
\* the ontology's metadata
OntologyMetadata ==
  { <<ontology_uri, RDF_type, OWL_Ontology>>,
    <<ontology_uri, DCTERMS(<<"t","i","t","l","e">>),
      Literal(<<"R","e","s","e","a","r","c","h"," ","I","n","f","r","a","s","t","r","u","c","t","u","r","e"," ","M","o","n","i","t","o","r","i","n","g"," ","O","n","t","o","l","o","g","y"," ","(","R","I","M","O",")">>, "en", NoDt)>>,
    <<ontology_uri, DCTERMS(<<"d","e","s","c","r","i","p","t","i","o","n">>), Literal(<<"A","n"," ","o","n","t","o","l","o","g","y"," ","f","o","r"," ","r","e","p","r","e","s","e","n","t","i","n","g">>, "en", NoDt)>>,
    <<ontology_uri, DCTERMS(<<"c","r","e","a","t","o","r">>),
      Literal(<<"J","u","l","i","a"," ","K","o","b","l","i","t","z"," ","(","L","e","i","b","n","i","z"," ","I","n","s","t","i","t","u","t","e"," ","D","S","M","Z",")">>, "en", NoDt)>>,
    <<ontology_uri, DCTERMS(<<"c","o","n","t","r","i","b","u","t","o","r">>),
      Literal(<<"B","i","o","H","a","c","k","a","t","h","o","n"," ","E","u","r","o","p","e"," ","2","0","2","5"," ","K","P","I"," ","M","o","n","i","t","o","r","i","n","g"," ","T","e","a","m">>, "en", NoDt)>>,
    <<ontology_uri, DCTERMS(<<"i","s","s","u","e","d">>), Literal(<<"2","0","2","5","-","1","1","-","0","5">>, NoLang, XSD_date)>>,
    <<ontology_uri, DCTERMS(<<"l","i","c","e","n","s","e">>), URIRef(<<"h","t","t","p","s",":","/","/","c","r","e","a","t","i","v","e","c","o","m","m","o","n","s",".","o","r","g","/","l","i","c","e","n","s","e","s","/","b","y","/","4",".","0","/">>)>>,
    <<ontology_uri, OWL_versionInfo, Literal(<<"0",".","1",".","0">>, NoLang, NoDt)>>,
    <<ontology_uri, DCTERMS(<<"l","a","n","g","u","a","g","e">>), Literal(<<"e","n">>, NoLang, NoDt)>>,
    <<ontology_uri, RDFS_seeAlso, URIRef(<<"h","t","t","p","s",":","/","/","g","i","t","h","u","b",".","c","o","m","/","e","l","i","x","i","r","-","e","u","r","o","p","e","/","b","i","o","h","a","c","k","a","t","h","o","n","-","k","p","i">>)>> }

ClassDeclarations ==
  { <<BASE(<<"I","n","d","i","c","a","t","o","r">>), RDF_type, RDFS_Class>>,
    <<BASE(<<"I","n","d","i","c","a","t","o","r">>), RDFS_label, Literal(<<"K","P","I"," ","I","n","d","i","c","a","t","o","r">>, "en", NoDt)>>,
    <<BASE(<<"S","e","r","v","i","c","e","C","a","t","e","g","o","r","y">>), RDF_type, RDFS_Class>>,
    <<BASE(<<"S","e","r","v","i","c","e","C","a","t","e","g","o","r","y">>), RDFS_label, Literal(<<"S","e","r","v","i","c","e"," ","C","a","t","e","g","o","r","y">>, "en", NoDt)>> }

PropertyDeclarations ==
  UNION { LET prop == PropertyNames[i]
          IN { <<properties(prop), RDF_type, RDF_Property>>,
               <<properties(prop), RDFS_label,
                 Literal(Capitalize(ReplaceChar(prop, "_", " ")), "en", NoDt)>> }
          : i \in 1..Len(PropertyNames) }

\* g as it is when the rows are read
OntologyGraph ==
  OntologyMetadata \cup ClassDeclarations
    \cup VocabularyTriples(tool_types, BASE(<<"S","e","r","v","i","c","e","C","a","t","e","g","o","r","y">>))
    \cup VocabularyTriples(target_groups, FOAF_Group)
    \cup VocabularyTriples(automation_tools, FOAF_Agent)
    \cup PropertyDeclarations

\* the mapping functions return None or a non-empty list; None is <<>>
NoResult == <<>>

\* the six legacy Service Category texts, shared by mapToolType and toolcat
LegacyCategory(service_category) ==
  IF service_category = <<"W","e","b"," ","a","p","p","l","i","c","a","t","i","o","n","s">> THEN << <<"W","e","b","_","a","p","p","l","i","c","a","t","i","o","n">> >>
  ELSE IF service_category = <<"D","a","t","a","b","a","s","e">> THEN << <<"D","a","t","a","b","a","s","e","_","p","o","r","t","a","l">> >>
  ELSE IF service_category = <<"L","i","b","r","a","r","i","e","s"," ","/"," ","A","P","I","s">> THEN << <<"L","i","b","r","a","r","y">>, <<"W","e","b","_","A","P","I">> >>
  ELSE IF service_category = <<"S","u","p","p","o","r","t"," ","/"," ","C","o","n","s","u","l","t","i","n","g">> THEN << <<"H","e","l","p","d","e","s","k">> >>
  ELSE IF service_category = <<"T","o","o","l","s","/"," ","A","p","p","l","i","c","a","t","i","o","n","s">> THEN << <<"D","e","s","k","t","o","p","_","a","p","p","l","i","c","a","t","i","o","n">> >>
  ELSE IF service_category = <<"W","o","r","k","f","l","o","w","s"," ","/"," ","p","i","p","e","l","i","n","e","s">> THEN << <<"W","o","r","k","f","l","o","w">> >>
  ELSE NoResult

mapToolType(g, service_category) ==
  IF IsNa(service_category) THEN NoResult
  ELSE LET sc == Strip(service_category.s)
           tool_uri == BASE(ReplaceChar(sc, " ", "_"))
       IN IF <<tool_uri, RDF_type, BASE(<<"S","e","r","v","i","c","e","C","a","t","e","g","o","r","y">>)>> \in g THEN <<tool_uri>>
          ELSE [i \in 1..Len(LegacyCategory(sc)) |-> BASE(LegacyCategory(sc)[i])]

\* the groups of the comma-separated cell that the graph declares, in order
RECURSIVE KnownGroups(_, _)
KnownGroups(g, pieces) ==
  IF pieces = <<>> THEN <<>>
  ELSE LET group_uri == BASE(ReplaceChar(Strip(Head(pieces)), " ", "_"))
       IN (IF <<group_uri, RDF_type, FOAF_Group>> \in g THEN <<group_uri>> ELSE <<>>)
            \o KnownGroups(g, Tail(pieces))
mapTargetGroup(g, target_group) ==
  IF IsNa(target_group) THEN NoResult
  ELSE KnownGroups(g, Split(target_group.s, ","))

\* one URI, or None (<<>>)
mapAutomationTool(g, tool_name) ==
  IF IsNa(tool_name) THEN NoResult
  ELSE LET tool_uri == BASE(ReplaceChar(Strip(tool_name.s), " ", "_"))
       IN IF <<tool_uri, RDF_type, FOAF_Agent>> \in g THEN <<tool_uri>> ELSE NoResult

\* add_literal(property_name, value, datatype), the closure of the row loop over
\* g and kpi_uri: "Add all non-empty values as literals"
add_literal(g, kpi_uri, property_name, value, datatype) ==
  IF NotNa(value) /\ Strip(Str(value)) # <<>>
  THEN Add(g, kpi_uri, properties(property_name), Literal(Str(value), NoLang, datatype))
  ELSE g

\* add_literal over each element of a list of URIs
RECURSIVE add_literals(_, _, _, _)
add_literals(g, kpi_uri, property_name, uris) ==
  IF uris = <<>> THEN g
  ELSE add_literals(add_literal(g, kpi_uri, property_name, UriV(Head(uris)), NoDt),
                    kpi_uri, property_name, Tail(uris))

\* the tools of the comma-separated Automation possible text that the graph
\* declares become automationTool resources of the KPI
RECURSIVE AddAutomationTools(_, _, _)
AddAutomationTools(g, kpi_uri, tools) ==
  IF tools = <<>> THEN g
  ELSE LET tool_uri == mapAutomationTool(g, StrV(Head(tools)))
           g1 == IF tool_uri # NoResult
                 THEN Add(g, kpi_uri, properties(<<"a","u","t","o","m","a","t","i","o","n","T","o","o","l">>), tool_uri[1])
                 ELSE g
       IN AddAutomationTools(g1, kpi_uri, Tail(tools))

\* kpi_id of the ontology builder: the label with spaces and slashes replaced
OntKpiId(indicator) == ReplaceChar(ReplaceChar(Strip(indicator), " ", "_"), "/", "_")

\* the subject of a row: BASE[kpi_id]
OntKpiUri(indicator) == BASE(OntKpiId(indicator))

\* val_type: one of two PATO terms, whatever the cell holds
ValType(row) ==
  IF row.TypeOfIndicator = StrV(<<"Q","u","a","n","t","i","t","a","t","i","v","e">>) THEN PATO(<<"0","1","0","3","0","0","0">>) ELSE PATO(<<"0","0","0","0","0","6","8">>)

\* the type and label triples of the row
OntTyped(g, row) ==
  Add(Add(g, OntKpiUri(row.Indicator.s), RDF_type, BASE(<<"I","n","d","i","c","a","t","o","r">>)),
      OntKpiUri(row.Indicator.s), RDFS_label, Literal(row.Indicator.s, "en", NoDt))

\* the add_literal calls that follow the description, in order; tg and service
\* were computed on the graph as it was after the type and label triples
AddMandatory(g, kpi_uri, row) ==
  add_literal(g, kpi_uri, <<"m","a","n","d","a","t","o","r","y">>, row.Mandatory,
              IF Lower(Str(row.Mandatory)) \in {<<"t","r","u","e">>, <<"y","e","s">>, <<"1">>, <<"Y","e","s">>}
              THEN XSD_boolean ELSE NoDt)
AddAutomationCell(g, kpi_uri, row) ==
  IF Truthy(row.AutomationPossible)
  THEN AddAutomationTools(g, kpi_uri, Split(Str(row.AutomationPossible), ","))
  ELSE g
AddLinkLiteral(g, kpi_uri, row) ==
  add_literal(g, kpi_uri, <<"l","i","n","k">>, row.Link,
              IF StartsWith(Str(row.Link), <<"h","t","t","p">>) THEN XSD_anyURI ELSE NoDt)

OntAfterDescription(g, kpi_uri, row, tg, service) ==
  AddLinkLiteral(
    AddAutomationCell(
      add_literal(
        add_literal(
          AddMandatory(
            add_literals(
              add_literal(
                add_literal(
                  add_literals(g, kpi_uri, <<"s","e","r","v","i","c","e","C","a","t","e","g","o","r","y">>, service),
                  kpi_uri, <<"v","a","l","u","e","T","y","p","e">>, UriV(ValType(row)), NoDt),
                kpi_uri, <<"e","x","a","m","p","l","e">>, row.Example, NoDt),
              kpi_uri, <<"t","a","r","g","e","t","G","r","o","u","p">>, tg),
            kpi_uri, row),
          kpi_uri, <<"m","e","a","s","u","r","e","m","e","n","t">>, row.Measurement, NoDt),
        kpi_uri, <<"s","o","u","r","c","e">>, row.Source, NoDt),
      kpi_uri, row),
    kpi_uri, row)

\* the body of the ontology builder's row loop for a row with n >= 2: the graph
\* it leaves and whether it ran to its end (ok) or raised AttributeError on an
\* Indicator or Description that is no str
OntRowBody(g, row) ==
  IF ~HasStrMethods(row.Indicator) THEN [g |-> g, ok |-> FALSE]
  ELSE
    LET kpi_uri == OntKpiUri(row.Indicator.s)
        typed == OntTyped(g, row)
        withSet == add_literal(typed, kpi_uri, <<"i","n","d","i","c","a","t","o","r","S","e","t">>, row.IndicatorSet, NoDt)
    IN IF ~HasStrMethods(row.Description) THEN [g |-> withSet, ok |-> FALSE]
       ELSE [g |-> OntAfterDescription(
                     add_literal(withSet, kpi_uri, <<"d","e","s","c","r","i","p","t","i","o","n">>,
                                 StrV(ReplaceChar(row.Description.s, "\n", " ")), NoDt),
                     kpi_uri, row,
                     mapTargetGroup(typed, row.TargetGroup),
                     mapToolType(typed, row.ServiceCategory)),
             ok |-> TRUE]

----------------------------------------------------------------------------
(* The instance builder, sheet_to_base_ttl.py.                             *)

DATA_ONTO == URIRef(<<"h","t","t","p",":","/","/","w","3","i","d",".","o","r","g","/","R","I","M","O","k","p","i">>)
ONTO == URIRef(<<"h","t","t","p",":","/","/","w","3","i","d",".","o","r","g","/","R","I","M","O">>)
\* data as it is when the rows are read: the import of the base ontology.  The
\* graph parsed from RIMO.ttl (base) only lends its prefixes; none of its
\* triples is copied into data
DataGraph ==
  { <<DATA_ONTO, RDF_type, OWL_Ontology>>,
    <<DATA_ONTO, OWL_imports, ONTO>>,
    <<DATA_ONTO, DCTERMS(<<"t","i","t","l","e">>), Literal(<<"R","I","M","O"," ","K","P","I"," ","I","n","s","t","a","n","c","e","s">>, "en", NoDt)>> }

\* the p.capitalize() of each non-empty part, in order
RECURSIVE CapitalizeParts(_)
CapitalizeParts(parts) ==
  IF parts = <<>> THEN <<>>
  ELSE (IF Head(parts) # <<>> THEN <<Capitalize(Head(parts))>> ELSE <<>>)
         \o CapitalizeParts(Tail(parts))
\* upper camel case from string
slugcamel(s) == Join(CapitalizeParts(ReSplitNonAlnum(Strip(s))))

\* lit returns None or a Literal
NoLiteral == [t |-> "none", ns |-> "", v |-> <<>>, lang |-> "", dt |-> ""]
Sentinels == {<<"n","a","n">>, <<"n","a">>, <<"<","n","a",">">>, <<"n","o","n","e">>}
lit(v, lang, dt) ==
  IF v.kind = "none" \/ Strip(Str(v)) = <<>> \/ IsNa(v) THEN NoLiteral
  ELSE IF dt = NoDt
       THEN LET s == Strip(Str(v))
            IN IF s = <<>> \/ Lower(s) \in Sentinels THEN NoLiteral
               ELSE Literal(s, lang, NoDt)
       ELSE Literal(Str(v), NoLang, dt)

\* data is the graph toolcat looks the category up in
toolcat(data, service_category) ==
  IF IsNa(service_category) THEN NoResult
  ELSE LET sc == Strip(service_category.s)
           tool_uri == RIMO(ReplaceChar(sc, " ", "_"))
       IN IF <<tool_uri, RDF_type, RIMO(<<"S","e","r","v","i","c","e","C","a","t","e","g","o","r","y">>)>> \in data THEN <<tool_uri>>
          ELSE [i \in 1..Len(LegacyCategory(sc)) |-> RIMO(LegacyCategory(sc)[i])]

\* the Mandatory text, trimmed and lower-cased, decides the relation
MandatoryWords == {<<"y","e","s">>, <<"t","r","u","e">>, <<"1">>}
RecommendedWords == {<<"n","o">>, <<"f","a","l","s","e">>, <<"0">>}
\* the relations with the Mandatory text compared as written, not lower-cased
RECURSIVE AddCategoriesCaseSensitive(_, _, _, _)
AddCategoriesCaseSensitive(data, kpi, category, mandatory) ==
  IF category = <<>> THEN data
  ELSE LET cat == Head(category)
           d1 == Add(data, kpi, RIMO(<<"a","p","p","l","i","e","d","T","o">>), cat)
           mand == Strip(Str(mandatory))
           d2 == IF mand \in MandatoryWords THEN Add(d1, kpi, RIMO(<<"m","a","n","d","a","t","o","r","y","F","o","r">>), cat)
                 ELSE IF mand \in RecommendedWords THEN Add(d1, kpi, RIMO(<<"r","e","c","o","m","m","e","n","d","e","d","F","o","r">>), cat)
                 ELSE d1
       IN AddCategoriesCaseSensitive(d2, kpi, Tail(category), mandatory)
RECURSIVE AddCategories(_, _, _, _)
AddCategories(data, kpi, category, mandatory) ==
  IF category = <<>> THEN data
  ELSE LET cat == Head(category)
           d1 == Add(data, kpi, RIMO(<<"a","p","p","l","i","e","d","T","o">>), cat)
           mand == Lower(Strip(Str(mandatory)))
           d2 == IF mand \in MandatoryWords THEN Add(d1, kpi, RIMO(<<"m","a","n","d","a","t","o","r","y","F","o","r">>), cat)
                 ELSE IF mand \in RecommendedWords THEN Add(d1, kpi, RIMO(<<"r","e","c","o","m","m","e","n","d","e","d","F","o","r">>), cat)
                 ELSE d1
       IN AddCategories(d2, kpi, Tail(category), mandatory)

\* a resource per non-empty token of a comma-separated text: typed cls, labelled
\* with the token (no language tag), and related to the KPI by relation
RECURSIVE AddTokens(_, _, _, _, _, _)
AddTokens(data, kpi, toks, prefix, cls, relation) ==
  IF toks = <<>> THEN data
  ELSE LET tok == Strip(Head(toks))
           res == RIMO(prefix \o slugcamel(tok))
           d1 == IF tok = <<>> THEN data
                 ELSE Add(Add(Add(data, res, RDF_type, cls),
                              res, RDFS_label, Literal(tok, NoLang, NoDt)),
                          kpi, relation, res)
       IN AddTokens(d1, kpi, Tail(toks), prefix, cls, relation)

\* the steps of the loop body after the type and name triples, each taking the
\* graph the step before left
AddDescription(data, kpi, row) ==
  LET d == lit(StrV(Replace(ReplaceChar(row.Description.s, "\n", " "), <<" "," ">>, <<" ">>)),
               "en", NoDt)
  IN IF d # NoLiteral THEN Add(data, kpi, RIMO(<<"d","e","s","c","r","i","p","t","i","o","n">>), d) ELSE data

AddExample(data, kpi, row) ==
  LET ex == lit(row.Example, "en", NoDt)
  IN IF Truthy(row.Example) /\ ex # NoLiteral
     THEN Add(data, kpi, RIMO(<<"e","x","a","m","p","l","e">>), ex) ELSE data

\* qualitative flag
AddQualitativeFlag(data, kpi, row) ==
  LET t == Lower(Str(row.TypeOfIndicator))
  IN IF Contains(t, <<"q","u","a","l","i","t">>)
     THEN Add(data, kpi, RIMO(<<"i","s","Q","u","a","l","i","t","a","t","i","v","e","I","n","d","i","c","a","t","o","r">>), BoolLiteral(TRUE))
     ELSE IF Contains(t, <<"q","u","a","n","t">>)
     THEN Add(data, kpi, RIMO(<<"i","s","Q","u","a","l","i","t","a","t","i","v","e","I","n","d","i","c","a","t","o","r">>), BoolLiteral(FALSE))
     ELSE data

\* tool category relations
AddCategoryRelations(data, kpi, row) ==
  AddCategories(data, kpi, toolcat(data, row.ServiceCategory), row.Mandatory)

\* means of measurement
AddMeasurementMeans(data, kpi, row) ==
  LET means == Strip(Str(row.Measurement))
      mm == RIMO(<<"m","e","a","n","s","/">> \o slugcamel(means))
  IN IF means # <<>>
     THEN Add(Add(Add(data, mm, RDF_type, RIMO(<<"M","e","a","s","u","r","e","m","e","n","t","M","e","a","n","s">>)),
                  mm, RDFS_label, Literal(means, "en", NoDt)),
              kpi, RIMO(<<"m","e","a","s","u","r","e","d","B","y">>), mm)
     ELSE data

\* automation tools (comma-separated)
AddAutomation(data, kpi, row) ==
  IF NotNa(row.AutomationPossible)
  THEN AddTokens(data, kpi, Split(Str(row.AutomationPossible), ","), <<"t","o","o","l","/">>,
                 RIMO(<<"A","u","t","o","m","a","t","i","o","n","T","o","o","l">>), RIMO(<<"c","a","n","B","e","A","u","t","o","m","a","t","e","d","B","y">>))
  ELSE data

\* requester (Target Group as free text Agent):  row.get("Target Group") or ""
AddRequesters(data, kpi, row) ==
  LET tgt == IF Truthy(row.TargetGroup) THEN row.TargetGroup ELSE StrV(<<>>)
  IN AddTokens(data, kpi, Split(Str(tgt), ","), <<"a","g","e","n","t","/">>, FOAF_Agent, RIMO(<<"r","e","q","u","e","s","t","e","d","B","y">>))

\* link:  str(row.get("Link") or "")
AddLink(data, kpi, row) ==
  LET link == Str(IF Truthy(row.Link) THEN row.Link ELSE StrV(<<>>))
  IN IF StartsWith(link, <<"h","t","t","p">>)
     THEN Add(data, kpi, DCTERMS(<<"r","e","l","a","t","i","o","n">>), URIRef(link)) ELSE data

\* the KPI's subject: RIMO[slugcamel(name)]
InstKpi(name) == RIMO(slugcamel(name))

\* the body of the instance builder's row loop for a row with n >= 2: the graph
\* it leaves and whether it ran to its end (ok) or raised AttributeError on a
\* Description that is no str
InstRowBody(data, row) ==
  LET name == Strip(Str(row.Indicator))
      kpi == InstKpi(name)
      typed == Add(Add(data, kpi, RDF_type, RIMO(<<"K","P","I">>)),
                   kpi, RIMO(<<"n","a","m","e">>), Literal(name, "en", NoDt))
  IN IF name = <<>> THEN [g |-> data, ok |-> TRUE]
     ELSE IF ~HasStrMethods(row.Description) THEN [g |-> typed, ok |-> FALSE]
     ELSE [g |-> AddLink(AddRequesters(AddAutomation(AddMeasurementMeans(
                   AddCategoryRelations(AddQualitativeFlag(AddExample(
                     AddDescription(typed, kpi, row), kpi, row), kpi, row), kpi, row),
                   kpi, row), kpi, row), kpi, row), kpi, row),
           ok |-> TRUE]

----------------------------------------------------------------------------
(* The spreadsheet.  A row holds one cell per column the scripts read.     *)

Columns ==
  {"Indicator", "Description", "Example", "TypeOfIndicator", "ServiceCategory", "Mandatory",
   "Measurement", "AutomationPossible", "TargetGroup", "Link", "IndicatorSet", "Source"}
\* the columns other than Indicator and Description
OptionalColumns == Columns \ {"Indicator", "Description"}

\* an empty spreadsheet line: read_csv yields NaN for every cell
BlankRow == [c \in Columns |-> NaN]
\* the row of the end-to-end scenario
TestRow ==
  [BlankRow EXCEPT !.Indicator = StrV(<<"T","e","s","t"," ","K","P","I">>),
                   !.Description = StrV(<<"A"," ","t","e","s","t",".">>),
                   !.TypeOfIndicator = StrV(<<"Q","u","a","n","t","i","t","a","t","i","v","e">>),
                   !.ServiceCategory = StrV(<<"D","a","t","a","b","a","s","e">>),
                   !.Mandatory = StrV(<<"Y","e","s">>),
                   !.Link = StrV(<<"h","t","t","p",":","/","/","e","x","a","m","p","l","e",".","o","r","g">>)]
\* a name of white space only
SpaceNameRow ==
  [BlankRow EXCEPT !.Indicator = StrV(<<" "," ">>), !.Description = StrV(<<"B","l","a","n","k",".">>),
                   !.Source = StrV(<<"E","L","I","X","I","R">>)]
\* an empty name cell on a line that is otherwise filled in
NoNameRow == [TestRow EXCEPT !.Indicator = NaN]
\* a named row whose Description cell is empty
NoDescriptionRow ==
  [TestRow EXCEPT !.Indicator = StrV(<<"C","i","t","a","t","i","o","n","s">>), !.Description = NaN,
                  !.IndicatorSet = StrV(<<"I","m","p","a","c","t">>)]
\* every column filled in; the name differs from TestRow's by a slash
FullRow ==
  [Indicator |-> StrV(<<"T","e","s","t","/","K","P","I">>),
   Description |-> StrV(<<"C","o","u","n","t","s","\n","t","h","e"," "," ","u","s","e","r","s",".">>),
   Example |-> StrV(<<"e",".","g","."," ","5">>),
   TypeOfIndicator |-> StrV(<<"Q","u","a","l","i","t","a","t","i","v","e">>),
   ServiceCategory |-> StrV(<<"L","i","b","r","a","r","i","e","s"," ","/"," ","A","P","I","s">>),
   Mandatory |-> StrV(<<"N","o">>),
   Measurement |-> StrV(<<"M","a","n","u","a","l"," ","c","o","u","n","t">>),
   AutomationPossible |-> StrV(<<"M","a","t","o","m","o",","," ","C","u","s","t","o","m"," ","s","c","r","i","p","t","s">>),
   TargetGroup |-> StrV(<<"E","n","d"," ","U","s","e","r",",","F","u","n","d","e","r","s">>),
   Link |-> StrV(<<"s","e","e"," ","w","i","k","i">>),
   IndicatorSet |-> StrV(<<"C","o","r","e">>),
   Source |-> StrV(<<"E","L","I","X","I","R">>)]
\* the category given by its display label
LabelRow ==
  [BlankRow EXCEPT !.Indicator = StrV(<<"U","p","t","i","m","e">>), !.Description = StrV(<<"U","p",".">>),
                   !.ServiceCategory = StrV(<<" ","L","i","b","r","a","r","y">>), !.Mandatory = StrV(<<" ","T","R","U","E"," ">>)]
\* a category neither script knows
UnknownCategoryRow ==
  [BlankRow EXCEPT !.Indicator = StrV(<<"U","s","e","r","s">>), !.Description = StrV(<<"U","s","e","r","s",".">>),
                   !.ServiceCategory = StrV(<<"O","t","h","e","r">>), !.Mandatory = StrV(<<"1">>)]
\* a legacy category with a Mandatory text that is neither yes nor no
MaybeRow ==
  [BlankRow EXCEPT !.Indicator = StrV(<<"t","e","s","t"," ","k","p","i">>), !.Description = StrV(<<"M","a","y","b","e",".">>),
                   !.ServiceCategory = StrV(<<"W","e","b"," ","a","p","p","l","i","c","a","t","i","o","n","s">>), !.Mandatory = StrV(<<"m","a","y","b","e">>)]
\* a legacy category with no Mandatory text
OnlyCategoryRow ==
  [BlankRow EXCEPT !.Indicator = StrV(<<"D","o","w","n","l","o","a","d","s">>), !.Description = StrV(<<"D","o","w","n","l","o","a","d","s",".">>),
                   !.ServiceCategory = StrV(<<"W","o","r","k","f","l","o","w","s"," ","/"," ","p","i","p","e","l","i","n","e","s">>)]

\* an indicator that bears the name of a service category
CategoryNameRow ==
  [BlankRow EXCEPT !.Indicator = StrV(<<"L","i","b","r","a","r","y">>), !.Description = StrV(<<"L","i","b","s",".">>)]

\* the lines a sheet is made of
DataRows ==
  {TestRow, BlankRow, SpaceNameRow, NoNameRow, NoDescriptionRow, FullRow, LabelRow,
   UnknownCategoryRow, MaybeRow, OnlyCategoryRow, CategoryNameRow}
\* what the two header lines are drawn from: a line that would add triples, one
\* that would stop the run, and an empty one
HeaderRows == {TestRow, NoDescriptionRow, BlankRow}
\* the number of leading lines the loops skip (n < 2)
HeaderCount == 2
\* the most lines after the header lines
MaxDataRows == 2

RECURSIVE SeqsUpTo(_, _)
SeqsUpTo(S, k) ==
  IF k = 0 THEN {<<>>}
  ELSE LET shorter == SeqsUpTo(S, k - 1)
       IN shorter \cup {Append(q, x) : q \in {r \in shorter : Len(r) = k - 1}, x \in S}
\* the sheets: fewer lines than the header takes, or the header lines and up to
\* MaxDataRows more
Sheets ==
  {q \in SeqsUpTo(HeaderRows, HeaderCount) : Len(q) < HeaderCount}
    \cup {h \o d : h \in {q \in SeqsUpTo(HeaderRows, HeaderCount) : Len(q) = HeaderCount},
                   d \in SeqsUpTo(DataRows, MaxDataRows)}

----------------------------------------------------------------------------
(* One run of one script.                                                  *)

VARIABLES
  prog,   \* which script runs: "ontology" (sheet_to_ttl.py) or "instance"
  df,     \* the sheet as read_csv returned it
  n,      \* the index of the next row of df.iterrows()
  g,      \* the graph (g of the ontology builder, data of the instance builder)
  pc,     \* "rows" in the loop, "failed" after an uncaught exception, "done"
  out,    \* the graphs serialized to the output file, in order
  calls   \* the helper calls made directly, each with its arguments and result

vars == <<prog, df, n, g, pc, out, calls>>

Programs == {"ontology", "instance"}
InitialGraph(p) == IF p = "ontology" THEN OntologyGraph ELSE DataGraph

Init ==
  /\ prog \in Programs
  /\ df \in Sheets
  /\ n = 0
  /\ g = InitialGraph(prog)
  /\ pc = "rows"
  /\ out = <<>>
  /\ calls = <<>>

\* the loop body of either script on a row the loop does not skip
RowBody(p, graph, row) ==
  IF p = "ontology" THEN OntRowBody(graph, row) ELSE InstRowBody(graph, row)

\* a loop that skips one row only
IsHeaderOffByOne(i) == i < 1
\* skip first two rows if they are headers:  if n < 2: continue
IsHeader(i) == i < HeaderCount

SkipHeader ==
  /\ pc = "rows"
  /\ n < Len(df)
  /\ IsHeader(n)
  /\ n' = n + 1
  /\ UNCHANGED <<prog, df, g, pc, out, calls>>

\* one pass of the ontology builder's loop body; an exception ends the run
OntRow ==
  /\ prog = "ontology"
  /\ pc = "rows"
  /\ n < Len(df)
  /\ ~IsHeader(n)
  /\ LET r == OntRowBody(g, df[n + 1])
     IN /\ g' = r.g
        /\ pc' = IF r.ok THEN "rows" ELSE "failed"
        /\ n' = IF r.ok THEN n + 1 ELSE n
  /\ UNCHANGED <<prog, df, out, calls>>

\* one pass of the instance builder's loop body
InstRow ==
  /\ prog = "instance"
  /\ pc = "rows"
  /\ n < Len(df)
  /\ ~IsHeader(n)
  /\ LET r == InstRowBody(g, df[n + 1])
     IN /\ g' = r.g
        /\ pc' = IF r.ok THEN "rows" ELSE "failed"
        /\ n' = IF r.ok THEN n + 1 ELSE n
  /\ UNCHANGED <<prog, df, out, calls>>

\* g.serialize(...) / data.serialize(...), after the loop
Serialize ==
  /\ pc = "rows"
  /\ n = Len(df)
  /\ out' = Append(out, g)
  /\ pc' = "done"
  /\ UNCHANGED <<prog, df, n, g, calls>>

Next == SkipHeader \/ OntRow \/ InstRow \/ Serialize

Spec == Init /\ [][Next]_vars

----------------------------------------------------------------------------
(* The helpers called on their own: each script's category mapping,        *)
(* literal helper and subject derivation, applied to arguments drawn from  *)
(* the sets below.  calls keeps every call made with its result.           *)

\* the most helper calls of one run of HelperSpec
MaxCalls == 2

Legacy ==
  {<<"W","e","b"," ","a","p","p","l","i","c","a","t","i","o","n","s">>, <<"D","a","t","a","b","a","s","e">>, <<"L","i","b","r","a","r","i","e","s"," ","/"," ","A","P","I","s">>, <<"S","u","p","p","o","r","t"," ","/"," ","C","o","n","s","u","l","t","i","n","g">>,
   <<"T","o","o","l","s","/"," ","A","p","p","l","i","c","a","t","i","o","n","s">>, <<"W","o","r","k","f","l","o","w","s"," ","/"," ","p","i","p","e","l","i","n","e","s">>}
\* Service Category cells: every display label, every legacy text, a label with
\* white space around it, and texts that are neither
CategoryInputs ==
  {StrV(tool_types[i].label) : i \in 1..Len(tool_types)}
    \cup {StrV(x) : x \in Legacy}
    \cup {NaN, StrV(<<" ","L","i","b","r","a","r","y"," ">>), StrV(<<"O","t","h","e","r">>), StrV(<<"d","a","t","a","b","a","s","e">>), StrV(<<"W","e","b","_","A","P","I">>),
          StrV(<<"L","i","b","r","a","r","i","e","s","/","A","P","I","s">>), StrV(<<" "," ">>)}
\* values handed to lit and add_literal
LiteralInputs ==
  {None, NaN} \cup
  {StrV(x) : x \in {<<>>, <<" ">>, <<" ","\n">>, <<"n","a","n">>, <<"N","a","N">>, <<"n","a">>, <<"N","A">>, <<"<","n","a",">">>, <<"<","N","A",">">>,
                    <<"n","o","n","e">>, <<"N","o","n","e">>, <<"N","O","N","E">>, <<" ","n","a","n"," ">>, <<"A"," ","t","e","s","t",".">>, <<" ","x"," ">>, <<"Y","e","s">>,
                    <<"h","t","t","p",":","/","/","e","x","a","m","p","l","e",".","o","r","g">>}}
Languages == {NoLang, "en"}
Datatypes == {NoDt, XSD_boolean, XSD_anyURI}
\* Indicator cells
NameInputs ==
  {<<"K","P","I"," ","O","n","e">>, <<"k","p","i","-","o","n","e">>, <<"A"," ","B">>, <<"A","/","B">>, <<"A","_","B">>, <<" ","A"," ","B">>, <<"a","1">>, <<"a"," ","1">>, <<"U","p","t","i","m","e">>,
   <<"T","e","s","t"," ","K","P","I">>, <<"-","-","-">>}

\* the subject either script derives from the text of an Indicator cell; the
\* instance builder trims the text before slugcamel sees it
KpiSubject(p, indicator) ==
  IF p = "ontology" THEN OntKpiUri(indicator) ELSE InstKpi(Strip(indicator))

\* the subject add_literal is called with outside a row
ProbeSubject == OntKpiUri(<<"T","e","s","t"," ","K","P","I">>)

Call(fn, arg, lang, dt, ret) == [fn |-> fn, arg |-> arg, lang |-> lang, dt |-> dt, ret |-> ret]

CallCategoryMapping ==
  /\ Len(calls) < MaxCalls
  /\ \E v \in CategoryInputs :
       calls' = Append(calls, Call("category", v, NoLang, NoDt,
                                   IF prog = "ontology" THEN mapToolType(g, v) ELSE toolcat(g, v)))
  /\ UNCHANGED <<prog, df, n, g, pc, out>>

CallLit ==
  /\ prog = "instance"
  /\ Len(calls) < MaxCalls
  /\ \E v \in LiteralInputs, lang \in Languages, dt \in Datatypes :
       calls' = Append(calls, Call("lit", v, lang, dt, lit(v, lang, dt)))
  /\ UNCHANGED <<prog, df, n, g, pc, out>>

\* ret is the set of triples the call added
CallAddLiteral ==
  /\ prog = "ontology"
  /\ Len(calls) < MaxCalls
  /\ \E v \in LiteralInputs, dt \in Datatypes :
       /\ g' = add_literal(g, ProbeSubject, <<"e","x","a","m","p","l","e">>, v, dt)
       /\ calls' = Append(calls, Call("add_literal", v, NoLang, dt, g' \ g))
  /\ UNCHANGED <<prog, df, n, pc, out>>

CallKpiSubject ==
  /\ Len(calls) < MaxCalls
  /\ \E name \in NameInputs :
       calls' = Append(calls, Call("subject", StrV(name), NoLang, NoDt, KpiSubject(prog, name)))
  /\ UNCHANGED <<prog, df, n, g, pc, out>>

HelperInit ==
  /\ prog \in Programs
  /\ df = <<>>
  /\ n = 0
  /\ g = InitialGraph(prog)
  /\ pc = "rows"
  /\ out = <<>>
  /\ calls = <<>>

HelperNext == CallCategoryMapping \/ CallLit \/ CallAddLiteral \/ CallKpiSubject

HelperSpec == HelperInit /\ [][HelperNext]_vars

----------------------------------------------------------------------------
(* The claims.                                                             *)

\* the row the loop is about to handle
CurrentRow == df[n + 1]
\* the loop is at a row it does not skip as a header
AtDataRow == pc = "rows" /\ n < Len(df) /\ n >= 2
\* an Indicator cell that is empty after trimming: the missing value of an empty
\* cell, or a text of white space only
BlankName(row) == IsNa(row.Indicator) \/ Strip(row.Indicator.s) = <<>>
\* a row with a name, which the spec calls a qualifying row
Qualifying(row) == ~BlankName(row)
Triples(graph, s, p) == {t \in graph : t[1] = s /\ t[2] = p}
WithPredicate(graph, p) == {t \in graph : t[2] = p}

\* C1: in both pipelines a data row (index >= 2) whose Indicator cell is empty
\* after trimming adds no triple and raises no error: the graph after the row
\* equals the graph before it.
C1_BlankNameRowAddsNothing ==
  [][(AtDataRow /\ BlankName(CurrentRow)) => (g' = g /\ pc' # "failed")]_vars

\* the category resources a Service Category text stands for, as the spec
\* documents them: the category whose display label the trimmed text is, else
\* the substitutes of a legacy text, else none
LabelIndex(text) == {i \in 1..Len(tool_types) : tool_types[i].label = text}
DocumentedCategories(cell) ==
  IF IsNa(cell) THEN <<>>
  ELSE LET text == Strip(cell.s)
       IN IF LabelIndex(text) # {}
          THEN << URI("rimo", ReplaceChar(tool_types[CHOOSE i \in LabelIndex(text) : TRUE].label,
                                          " ", "_")) >>
          ELSE IF text = <<"W","e","b"," ","a","p","p","l","i","c","a","t","i","o","n","s">> THEN << URI("rimo", <<"W","e","b","_","a","p","p","l","i","c","a","t","i","o","n">>) >>
          ELSE IF text = <<"D","a","t","a","b","a","s","e">> THEN << URI("rimo", <<"D","a","t","a","b","a","s","e","_","p","o","r","t","a","l">>) >>
          ELSE IF text = <<"L","i","b","r","a","r","i","e","s"," ","/"," ","A","P","I","s">>
            THEN << URI("rimo", <<"L","i","b","r","a","r","y">>), URI("rimo", <<"W","e","b","_","A","P","I">>) >>
          ELSE IF text = <<"S","u","p","p","o","r","t"," ","/"," ","C","o","n","s","u","l","t","i","n","g">> THEN << URI("rimo", <<"H","e","l","p","d","e","s","k">>) >>
          ELSE IF text = <<"T","o","o","l","s","/"," ","A","p","p","l","i","c","a","t","i","o","n","s">> THEN << URI("rimo", <<"D","e","s","k","t","o","p","_","a","p","p","l","i","c","a","t","i","o","n">>) >>
          ELSE IF text = <<"W","o","r","k","f","l","o","w","s"," ","/"," ","p","i","p","e","l","i","n","e","s">> THEN << URI("rimo", <<"W","o","r","k","f","l","o","w">>) >>
          ELSE <<>>

\* C2: the category mapping of each pipeline returns the single category whose
\* display label the trimmed text equals, the fixed substitutes of a legacy
\* text, and no category for any other text or a missing cell.
C2_CategoryMappingAsDocumented ==
  \A i \in 1..Len(calls) :
    calls[i].fn = "category" => calls[i].ret = DocumentedCategories(calls[i].arg)

\* a value the spec counts as absent: missing, empty or white space only, or a
\* sentinel text in any case
AbsentValue(v) ==
  \/ IsNa(v)
  \/ Strip(v.s) = <<>>
  \/ Lower(v.s) \in {<<"n","a","n">>, <<"n","a">>, <<"<","n","a",">">>, <<"n","o","n","e">>}

\* C3: the literal helper of each pipeline, given an absent value, produces no
\* literal (lit returns None, add_literal adds no triple), whatever the
\* language and datatype arguments.
C3_AbsentValueGivesNoLiteral ==
  \A i \in 1..Len(calls) :
    AbsentValue(calls[i].arg) =>
      /\ calls[i].fn = "lit" => calls[i].ret = NoLiteral
      /\ calls[i].fn = "add_literal" => calls[i].ret = {}

\* C4: the KPI subject is an injective function of the indicator name: two
\* distinct non-empty names never yield the same URI.
C4_SubjectInjective ==
  \A i, j \in 1..Len(calls) :
    (/\ calls[i].fn = "subject"
     /\ calls[j].fn = "subject"
     /\ calls[i].arg # calls[j].arg) => calls[i].ret # calls[j].ret

\* the resources typed as an Indicator (ontology builder) or a KPI (instance
\* builder) and the property that holds their label
IndicatorClass == IF prog = "ontology" THEN URI("rimo", <<"I","n","d","i","c","a","t","o","r">>) ELSE URI("rimo", <<"K","P","I">>)
LabelProperty == IF prog = "ontology" THEN RDFS_label ELSE URI("rimo", <<"n","a","m","e">>)
Indicators == {t[1] : t \in {x \in g : x[2] = RDF_type /\ x[3] = IndicatorClass}}

\* C5: after any sequence of rows every resource typed as an Indicator has
\* exactly one label value in the graph.
C5_ExactlyOneLabel ==
  \A k \in Indicators : Cardinality(Triples(g, k, LabelProperty)) = 1

QuantitativeText == NsText("pato") \o <<"0","1","0","3","0","0","0">>
TrueBoolean == [t |-> "lit", ns |-> "", v |-> <<"t","r","u","e">>, lang |-> "", dt |-> "boolean"]
ExampleOrgLink ==
  [t |-> "lit", ns |-> "", v |-> <<"h","t","t","p",":","/","/","e","x","a","m","p","l","e",".","o","r","g">>, lang |-> "", dt |-> "anyURI"]

\* C6: the ontology builder, given two header rows and the one data row of the
\* end-to-end scenario, writes for the row's subject: rdf:type Indicator, a
\* valueType denoting quantitative, the Database_portal resource itself as
\* serviceCategory, the boolean literal true as mandatory, the anyURI literal
\* of the URL as link, and no indicatorSet, example, targetGroup, measurement,
\* source or automationTool triple.
C6_EndToEndScenario ==
  (prog = "ontology" /\ Len(df) = 3 /\ df[3] = TestRow /\ pc = "done") =>
    LET kpi == URI("rimo", <<"T","e","s","t","_","K","P","I">>)
        G == out[1]
        P(name) == URI("rimo", name)
    IN /\ <<kpi, RDF_type, URI("rimo", <<"I","n","d","i","c","a","t","o","r">>)>> \in G
       /\ \E t \in Triples(G, kpi, P(<<"v","a","l","u","e","T","y","p","e">>)) :
            t[3] = URI("pato", <<"0","1","0","3","0","0","0">>) \/ (t[3].t = "lit" /\ t[3].v = QuantitativeText)
       /\ <<kpi, P(<<"s","e","r","v","i","c","e","C","a","t","e","g","o","r","y">>), URI("rimo", <<"D","a","t","a","b","a","s","e","_","p","o","r","t","a","l">>)>> \in G
       /\ <<kpi, P(<<"m","a","n","d","a","t","o","r","y">>), TrueBoolean>> \in G
       /\ <<kpi, P(<<"l","i","n","k">>), ExampleOrgLink>> \in G
       /\ \A name \in {<<"i","n","d","i","c","a","t","o","r","S","e","t">>, <<"e","x","a","m","p","l","e">>, <<"t","a","r","g","e","t","G","r","o","u","p">>, <<"m","e","a","s","u","r","e","m","e","n","t">>,
                       <<"s","o","u","r","c","e">>, <<"a","u","t","o","m","a","t","i","o","n","T","o","o","l">>} : Triples(G, kpi, P(name)) = {}

\* the graph that handling the given rows, one after the other, leaves
RECURSIVE RowsGraph(_, _, _)
RowsGraph(p, graph, rows) ==
  IF rows = <<>> THEN graph
  ELSE RowsGraph(p, RowBody(p, graph, Head(rows)).g, Tail(rows))
\* the rows after the first two that the loop has handled to their end
HandledRows == SubSeq(df, 3, n)

FedBy(p, c) ==
  IF p = "ontology"
  THEN CASE c = "Example" -> {URI("rimo", <<"e","x","a","m","p","l","e">>)}
         [] c = "TypeOfIndicator" -> {URI("rimo", <<"v","a","l","u","e","T","y","p","e">>)}
         [] c = "ServiceCategory" -> {URI("rimo", <<"s","e","r","v","i","c","e","C","a","t","e","g","o","r","y">>)}
         [] c = "Mandatory" -> {URI("rimo", <<"m","a","n","d","a","t","o","r","y">>)}
         [] c = "Measurement" -> {URI("rimo", <<"m","e","a","s","u","r","e","m","e","n","t">>)}
         [] c = "AutomationPossible" -> {URI("rimo", <<"a","u","t","o","m","a","t","i","o","n","T","o","o","l">>)}
         [] c = "TargetGroup" -> {URI("rimo", <<"t","a","r","g","e","t","G","r","o","u","p">>)}
         [] c = "Link" -> {URI("rimo", <<"l","i","n","k">>)}
         [] c = "IndicatorSet" -> {URI("rimo", <<"i","n","d","i","c","a","t","o","r","S","e","t">>)}
         [] c = "Source" -> {URI("rimo", <<"s","o","u","r","c","e">>)}
  ELSE CASE c = "Example" -> {URI("rimo", <<"e","x","a","m","p","l","e">>)}
         [] c = "TypeOfIndicator" -> {URI("rimo", <<"i","s","Q","u","a","l","i","t","a","t","i","v","e","I","n","d","i","c","a","t","o","r">>)}
         [] c = "ServiceCategory" ->
              {URI("rimo", <<"a","p","p","l","i","e","d","T","o">>), URI("rimo", <<"m","a","n","d","a","t","o","r","y","F","o","r">>),
               URI("rimo", <<"r","e","c","o","m","m","e","n","d","e","d","F","o","r">>)}
         [] c = "Mandatory" -> {URI("rimo", <<"m","a","n","d","a","t","o","r","y","F","o","r">>), URI("rimo", <<"r","e","c","o","m","m","e","n","d","e","d","F","o","r">>)}
         [] c = "Measurement" -> {URI("rimo", <<"m","e","a","s","u","r","e","d","B","y">>)}
         [] c = "AutomationPossible" -> {URI("rimo", <<"c","a","n","B","e","A","u","t","o","m","a","t","e","d","B","y">>)}
         [] c = "TargetGroup" -> {URI("rimo", <<"r","e","q","u","e","s","t","e","d","B","y">>)}
         [] c = "Link" -> {URI("dcterms", <<"r","e","l","a","t","i","o","n">>)}
         [] OTHER -> {}
CreatedClass(p, c) ==
  IF p = "ontology" THEN {}
  ELSE CASE c = "Measurement" -> {URI("rimo", <<"M","e","a","s","u","r","e","m","e","n","t","M","e","a","n","s">>)}
         [] c = "AutomationPossible" -> {URI("rimo", <<"A","u","t","o","m","a","t","i","o","n","T","o","o","l">>)}
         [] c = "TargetGroup" -> {FOAF_Agent}
         [] OTHER -> {}

\* C8: for every qualifying row and every optional column, a missing cell is
\* treated as absent: the row adds no triple for the property the column feeds,
\* creates no resource from it, and raises no error.
C8_MissingCellAddsNothing ==
  [][(AtDataRow /\ Qualifying(CurrentRow) /\ ~IsNa(CurrentRow.Description)) =>
       /\ pc' # "failed"
       /\ \A c \in OptionalColumns :
            IsNa(CurrentRow[c]) =>
              \A t \in g' \ g :
                /\ t[2] \notin FedBy(prog, c)
                /\ ~(t[2] = RDF_type /\ t[3] \in CreatedClass(prog, c))]_vars

\* a qualifying row whose Description cell is missing
LacksDescription(row) == Qualifying(row) /\ IsNa(row.Description)
HasRowLackingDescription == \E i \in 3..Len(df) : LacksDescription(df[i])
\* the type and label triples of a qualifying row
TypeAndLabel(row) ==
  IF prog = "ontology"
  THEN LET k == URI("rimo", ReplaceChar(ReplaceChar(Strip(row.Indicator.s), " ", "_"), "/", "_"))
       IN { <<k, RDF_type, IndicatorClass>>,
            <<k, LabelProperty, [t |-> "lit", ns |-> "", v |-> row.Indicator.s,
                                 lang |-> "en", dt |-> ""]>> }
  ELSE LET k == URI("rimo", slugcamel(row.Indicator.s))
       IN { <<k, RDF_type, IndicatorClass>>,
            <<k, LabelProperty, [t |-> "lit", ns |-> "", v |-> Strip(row.Indicator.s),
                                 lang |-> "en", dt |-> ""]>> }

C9_Safety ==
  /\ Len(out) <= 1
  /\ out # <<>> => (pc = "done" /\ n = Len(df) /\ out[1] = g)
  /\ pc = "done" => Len(out) = 1
  /\ pc = "failed" => out = <<>>
  /\ HasRowLackingDescription =>
       (out = <<>> /\ (pc = "failed" \/ (pc = "rows" /\ n < Len(df))))
  /\ (pc = "failed" /\ LacksDescription(CurrentRow)) =>
       /\ TypeAndLabel(CurrentRow) \subseteq g
       /\ RowsGraph(prog, InitialGraph(prog), HandledRows) \subseteq g

\* every step handles one more row or ends the loop, so a run ends
C9_Step == n' > n \/ pc' # "rows"

\* C9: a run whose input holds a qualifying row with a missing Description ends
\* in a fatal failure and writes no output file, although the triples of the
\* earlier rows and the type and label triples of the failing row are in the
\* graph; the file is written once at most, and only after every row was
\* handled without failure.  (Such a run is never done and never out of rows
\* while in the loop, and every step advances it: it can only end failed.)
C9_MissingDescriptionIsFatal == []C9_Safety /\ [][C9_Step]_vars
\* a run that failed on such a row after an earlier row had added its triples
C9_Witness ==
  /\ pc = "failed"
  /\ n > 2
  /\ LacksDescription(CurrentRow)
  /\ g # InitialGraph(prog)
  /\ out = <<>>

AppliedTo == URI("rimo", <<"a","p","p","l","i","e","d","T","o">>)
MandatoryFor == URI("rimo", <<"m","a","n","d","a","t","o","r","y","F","o","r">>)
RecommendedFor == URI("rimo", <<"r","e","c","o","m","m","e","n","d","e","d","F","o","r">>)
\* the Mandatory cell as the spec classifies it
SaysYes(cell) == ~IsNa(cell) /\ Lower(Strip(cell.s)) \in {<<"y","e","s">>, <<"t","r","u","e">>, <<"1">>}
SaysNo(cell) == ~IsNa(cell) /\ Lower(Strip(cell.s)) \in {<<"n","o">>, <<"f","a","l","s","e">>, <<"0">>}

C10_Row ==
  (prog = "instance" /\ AtDataRow /\ Qualifying(CurrentRow) /\ ~IsNa(CurrentRow.Description)) =>
    LET row == CurrentRow
        kpi == URI("rimo", slugcamel(row.Indicator.s))
        cats == toolcat(g, row.ServiceCategory)
        added == g' \ g
    IN /\ \A i \in 1..Len(cats) :
            /\ <<kpi, AppliedTo, cats[i]>> \in g'
            /\ SaysYes(row.Mandatory) =>
                 (<<kpi, MandatoryFor, cats[i]>> \in g' /\ <<kpi, RecommendedFor, cats[i]>> \notin added)
            /\ SaysNo(row.Mandatory) =>
                 (<<kpi, RecommendedFor, cats[i]>> \in g' /\ <<kpi, MandatoryFor, cats[i]>> \notin added)
            /\ (~SaysYes(row.Mandatory) /\ ~SaysNo(row.Mandatory)) =>
                 (/\ <<kpi, MandatoryFor, cats[i]>> \notin added
                  /\ <<kpi, RecommendedFor, cats[i]>> \notin added)
       /\ \A t \in added :
            t[2] \in {AppliedTo, MandatoryFor, RecommendedFor} =>
              (t[1] = kpi /\ \E i \in 1..Len(cats) : t[3] = cats[i])
C10_Matched ==
  prog = "instance" =>
    \A t \in g : t[2] \in {MandatoryFor, RecommendedFor} => <<t[1], AppliedTo, t[3]>> \in g

EnumerationResources ==
  {BASE(ReplaceChar(tool_types[i].label, " ", "_")) : i \in 1..Len(tool_types)}
    \cup {BASE(ReplaceChar(target_groups[i].label, " ", "_")) : i \in 1..Len(target_groups)}
\* the triples of a graph whose subject is an enumeration resource
AboutEnumeration(graph) == {t \in graph : t[1] \in EnumerationResources}
\* C11: enumeration resources are fixed and never row-derived.  In both
\* pipelines, after any sequence of rows, the triples whose subject is a
\* pre-declared ServiceCategory or TargetGroup resource are those the graph held
\* before the first row, and no subject the rows typed as an indicator is an
\* enumeration resource.
C11_EnumerationResourcesFixed ==
  /\ AboutEnumeration(g) = AboutEnumeration(InitialGraph(prog))
  /\ Indicators \cap EnumerationResources = {}

====
